---------------------------- MODULE Spec2Model ----------------------------
(***************************************************************************)
(* Model of the PCF85263 real-time-clock driver                            *)
(* (drivers/timers/pcf85263.c): the BCD codec, the driver's global state   *)
(* and the three public operations pcf85263_rtc_initialize,                *)
(* up_rtc_getdatetime and up_rtc_settime, run against an I2C transport     *)
(* and a chip whose seconds counter ticks asynchronously.                  *)
(***************************************************************************)
EXTENDS Integers, Naturals, Sequences, FiniteSets, TLC

(***************************************************************************)
(* Bounds of the model.                                                    *)
(***************************************************************************)

\* The chip ticks at most MaxTicks times in a behaviour.
MaxTicks == 2

\* up_rtc_getdatetime and up_rtc_settime are called at most MaxCalls times.
MaxCalls == 2

(***************************************************************************)
(* Program constants.                                                      *)
(***************************************************************************)

OK == 0
EAGAIN == 11
EINVAL == 22
EIO == 5
ETIMEDOUT == 110

\* Register addresses and field masks of the chip (pcf85263.h).
PCF85263_RTC_100TH_SECONDS == 0
PCF85263_RTC_SECONDS == 1
PCF85263_RTC_SECONDS_MASK == 127
PCF85263_RTC_MINUTES_MASK == 127
PCF85263_RTC_HOURS24_MASK == 63
PCF85263_RTC_DAYS_MASK == 63
PCF85263_RTC_WEEKDAYS_MASK == 7
PCF85263_RTC_MONTHS_MASK == 31

\* time_t is an unsigned 32-bit second count.  TLC's integers stop at
\* 2^31 - 1, so a time_t value t is held as [d |-> t \div 86400,
\* s |-> t % 86400]; 2^32 - 1 = 49710 * 86400 + 23295.
SEC_PER_DAY == 86400
TIME_MAX_DAYS == 49710
TIME_MAX_SECS == 23295
NSEC_HALF == 500000000

(***************************************************************************)
(* Bit operations on C integers.                                           *)
(***************************************************************************)

RECURSIVE BitAndN(_, _, _)
BitAndN(a, b, n) ==
  IF n = 0 THEN 0
  ELSE (a % 2) * (b % 2) + 2 * BitAndN(a \div 2, b \div 2, n - 1)

RECURSIVE BitOrN(_, _, _)
BitOrN(a, b, n) ==
  IF n = 0 THEN 0
  ELSE (IF (a % 2) + (b % 2) > 0 THEN 1 ELSE 0)
       + 2 * BitOrN(a \div 2, b \div 2, n - 1)

\* a & b and a | b for operands below 2^16 (the operands are bound as
\* values before the bits are taken)
BitAnd(a, b) == CHOOSE x \in {BitAndN(av, bv, 16) : av \in {a}, bv \in {b}} : TRUE
BitOr(a, b) == CHOOSE x \in {BitOrN(av, bv, 16) : av \in {a}, bv \in {b}} : TRUE

\* conversion of an int to uint8_t
U8(x) == x % 256

(***************************************************************************)
(* BCD codec.                                                              *)
(***************************************************************************)

\* a loop that stops at a remainder of 10
RECURSIVE bin2bcd_loop_gt(_, _)
bin2bcd_loop_gt(msbcd, value) ==
  IF value > 10 THEN bin2bcd_loop_gt(U8(msbcd + 1), value - 10)
  ELSE [msbcd |-> msbcd, value |-> value]

\* the while loop of rtc_bin2bcd: msbcd is a uint8_t, value an int
RECURSIVE bin2bcd_loop(_, _)
bin2bcd_loop(msbcd, value) ==
  IF value >= 10 THEN bin2bcd_loop(U8(msbcd + 1), value - 10)
  ELSE [msbcd |-> msbcd, value |-> value]

\* return (msbcd << 4) | value, converted to uint8_t.  A negative value
\* skips the loop, so msbcd = 0 and the result is the low byte of value.
rtc_bin2bcd(value) ==
  LET r == bin2bcd_loop(0, value)
  IN  IF r.value < 0 THEN U8(r.value)
      ELSE U8(BitOr(r.msbcd * 16, r.value))

\* decoding that reads the tens digit as a hexadecimal digit
rtc_bcd2bin_hex(value) == (value \div 16) * 16 + BitAnd(value, 15)

rtc_bcd2bin(value) ==
  LET tens == (value \div 16) * 10
  IN  tens + BitAnd(value, 15)

(***************************************************************************)
(* time_t arithmetic and the calendar conversion.                          *)
(***************************************************************************)

TimeT(d, s) == [d |-> d, s |-> s]
TIME_MAX == TimeT(TIME_MAX_DAYS, TIME_MAX_SECS)

\* t + 1 in the integers
TimeSucc(t) ==
  IF t.s = SEC_PER_DAY - 1 THEN TimeT(t.d + 1, 0) ELSE TimeT(t.d, t.s + 1)

\* newtime++ on a uint32_t: 2^32 - 1 wraps to 0
TimeInc(t) == IF t = TIME_MAX THEN TimeT(0, 0) ELSE TimeSucc(t)

\* newtime = tv_sec; if (tv_nsec >= 500000000) newtime++;
RoundTime(tv_sec, tv_nsec) ==
  IF tv_nsec >= NSEC_HALF THEN TimeInc(tv_sec) ELSE tv_sec

\* Gregorian date of day number z counted from 1 Jan 1970
CivilFromDays(z) ==
  LET zz  == z + 719468
      era == zz \div 146097
      doe == zz - era * 146097
      yoe == (doe - doe \div 1460 + doe \div 36524 - doe \div 146096) \div 365
      doy == doe - (365 * yoe + yoe \div 4 - yoe \div 100)
      mp  == (5 * doy + 2) \div 153
      dd  == doy - (153 * mp + 2) \div 5 + 1
      mm  == IF mp < 10 THEN mp + 3 ELSE mp - 9
      yy  == yoe + era * 400 + (IF mm <= 2 THEN 1 ELSE 0)
  IN  [year |-> yy, mon |-> mm, mday |-> dd]

\* gmtime_r: broken-down UTC time of a second count
gmtime_r(t) ==
  LET c == CivilFromDays(t.d)
  IN  [tm_sec  |-> t.s % 60,
       tm_min  |-> (t.s \div 60) % 60,
       tm_hour |-> t.s \div 3600,
       tm_mday |-> c.mday,
       tm_wday |-> (t.d + 4) % 7,
       tm_mon  |-> c.mon - 1,
       tm_year |-> c.year - 1900]

(***************************************************************************)
(* The chip: eight registers 0x00..0x07 (hundredths, seconds, minutes,     *)
(* hours, days, weekdays, months, years), each a BCD byte; bit 7 of the    *)
(* seconds and of the minutes register is a flag that a tick leaves alone. *)
(***************************************************************************)

ChipBcd(v) == (v \div 10) * 16 + (v % 10)
ChipBin(b) == (b \div 16) * 10 + (b % 16)

ChipDaysIn(mon, year) ==
  IF mon = 2 THEN (IF year % 4 = 0 THEN 29 ELSE 28)
  ELSE IF mon \in {4, 6, 9, 11} THEN 30 ELSE 31

\* one tick of the seconds counter, with the carry into the other fields
ChipTick(r) ==
  LET sec   == ChipBin(r[1] % 128)
      min   == ChipBin(r[2] % 128)
      hour  == ChipBin(r[3] % 64)
      day   == ChipBin(r[4] % 64)
      wday  == r[5] % 8
      mon   == ChipBin(r[6] % 32)
      year  == ChipBin(r[7])
      cmin  == sec >= 59
      chour == cmin /\ min >= 59
      cday  == chour /\ hour >= 23
      cmon  == cday /\ day >= ChipDaysIn(mon, year)
      cyear == cmon /\ mon >= 12
  IN  [i \in 0..7 |->
        CASE i = 0 -> r[0]
          [] i = 1 -> (r[1] \div 128) * 128 + ChipBcd(IF cmin THEN 0 ELSE sec + 1)
          [] i = 2 -> IF ~cmin THEN r[2]
                      ELSE (r[2] \div 128) * 128
                           + ChipBcd(IF chour THEN 0 ELSE min + 1)
          [] i = 3 -> IF ~chour THEN r[3]
                      ELSE ChipBcd(IF cday THEN 0 ELSE hour + 1)
          [] i = 4 -> IF ~cday THEN r[4]
                      ELSE ChipBcd(IF cmon THEN 1 ELSE day + 1)
          [] i = 5 -> IF ~cday THEN r[5] ELSE (wday + 1) % 7
          [] i = 6 -> IF ~cmon THEN r[6]
                      ELSE ChipBcd(IF cyear THEN 1 ELSE mon + 1)
          [] i = 7 -> IF ~cyear THEN r[7] ELSE ChipBcd((year + 1) % 100)]

(***************************************************************************)
(* The I2C transport.  A transfer runs its messages in order, one byte at  *)
(* a time: the first byte of a write message sets the chip's register      *)
(* pointer, every further byte is stored at the pointer, every byte of a   *)
(* read message is fetched from it, and the pointer advances.  The chip    *)
(* may tick before byte number tickAt (a tick between two transfers is a   *)
(* tick before byte 1 of the second), and the transfer may fail before     *)
(* byte number failAt (0: never); a transfer that fails sees no tick.      *)
(***************************************************************************)

I2C_M_READ == 1

I2CByte(st, m, j) ==
  IF m.flags = I2C_M_READ
  THEN [st EXCEPT !.rd  = Append(st.rd, IF st.ptr \in 0..7
                                        THEN st.regs[st.ptr] ELSE 0),
                  !.ptr = st.ptr + 1]
  ELSE IF j = 1 THEN [st EXCEPT !.ptr = m.buffer[1]]
  ELSE [st EXCEPT !.regs = IF st.ptr \in 0..7
                           THEN [st.regs EXCEPT ![st.ptr] = m.buffer[j]]
                           ELSE st.regs,
                  !.ptr  = st.ptr + 1]

\* (st2, the state after the byte, is bound as a value before the run goes on)
RECURSIVE I2CRun(_, _, _, _, _, _, _)
I2CRun(st, msgs, i, j, n, tickAt, failAt) ==
  IF i > Len(msgs) THEN st
  ELSE LET st1 == IF n = tickAt
                  THEN [st EXCEPT !.regs = ChipTick(st.regs)] ELSE st
       IN  IF n = failAt THEN [st1 EXCEPT !.ok = FALSE]
           ELSE CHOOSE end \in
                  {IF j = msgs[i].length
                   THEN I2CRun(st2, msgs, i + 1, 1, n + 1, tickAt, failAt)
                   ELSE I2CRun(st2, msgs, i, j + 1, n + 1, tickAt, failAt) :
                     st2 \in {I2CByte(st1, msgs[i], j)}} : TRUE

\* I2C_TRANSFER(dev, msgs, count): the registers afterwards, the bytes read
\* (in order) and whether the transfer completed
I2C_TRANSFER(r, msgs, tickAt, failAt) ==
  I2CRun([regs |-> r, ptr |-> 0, rd |-> <<>>, ok |-> TRUE],
         msgs, 1, 1, 1, tickAt, failAt)

RECURSIVE MsgBytes(_, _)
MsgBytes(msgs, i) ==
  IF i > Len(msgs) THEN 0 ELSE msgs[i].length + MsgBytes(msgs, i + 1)

\* the byte numbers a tick can precede: any byte of the transfer
TickPoints(msgs) == 1..MsgBytes(msgs, 1)

\* the byte numbers a failure can precede: the first byte of a message
FailPoints(msgs) == {1 + MsgBytes(SubSeq(msgs, 1, i - 1), 1) : i \in 1..Len(msgs)}

(***************************************************************************)
(* Inputs.                                                                 *)
(***************************************************************************)

NULL == "NULL"
Handles == {"i2c0", "i2c1"}

\* the handles a caller passes to pcf85263_rtc_initialize: the buses are
\* alike, so the first call is given "i2c0" and a later one either bus
InitHandles(last) == IF last = NULL THEN {"i2c0"} ELSE Handles
Errs == {EIO, ETIMEDOUT}

\* second counts passed to up_rtc_settime: the last second of 31 Dec 1999
\* and the largest second count, each just below and at the half second
TvSecs == {TimeT(10956, 86399), TIME_MAX}
TvNsecs == {NSEC_HALF - 1, NSEC_HALF}

\* what the caller's struct tm holds before the first call
TmJunk ==
  {[tm_sec |-> 61, tm_min |-> 61, tm_hour |-> 25, tm_mday |-> 0,
    tm_wday |-> 7, tm_mon |-> 12, tm_year |-> 0]}

\* register image of the chip at start: 28 Feb (20)01 23:59:58 with the
\* flag bits of the seconds and minutes registers set
ChipInits ==
  {[i \in 0..7 |-> <<37, 128 + 88, 128 + 89, 35, 40, 3, 2, 51>>[i + 1]]}

(***************************************************************************)
(* State.                                                                  *)
(***************************************************************************)

VARIABLES
  g_rtc_enabled,  \* volatile bool g_rtc_enabled
  g_i2c,          \* g_pcf85263.i2c
  timeExt,        \* CONFIG_LIBC_LOCALTIME || CONFIG_TIME_EXTENDED (tm_wday exists)
  pc,             \* where the calling thread is: "idle", "get", "set"
  tp,             \* the struct tm the caller passes to up_rtc_getdatetime
  ret,            \* the value the last call returned (OK while one runs)
  buffer,         \* uint8_t buffer[7] (get) or buffer[9] (set)
  seconds,        \* uint8_t seconds
  newtime,        \* time_t newtime of up_rtc_settime
  regs,           \* the chip's registers
  ticks,          \* ticks of the chip so far
  lastOp,         \* the operation called last: "none", "init", "get", "set"
  lastInit,       \* the handle passed to the last pcf85263_rtc_initialize
  busLog,         \* the transfers of the current call: handle, messages,
                  \* result, bytes read (and, for a read of the time, the
                  \* registers when the transfer began)
  tp0,            \* tp as it was when up_rtc_getdatetime was entered
  tv,             \* the timespec passed to the last up_rtc_settime, and
                  \* whether its calendar conversion succeeded
  rebound,        \* an initialize has replaced a handle by a different one
  echo,           \* the registers are the image of the last successful set
  calls,          \* calls of up_rtc_getdatetime and up_rtc_settime so far
  bcdPc,          \* codec exercise: "off", "start", "encoded", "decoded",
                  \* "raw", "rawDecoded", "pair", "compared"
  bcdValue,       \* codec exercise: the integer given to rtc_bin2bcd
  bcdByte,        \* codec exercise: the byte rtc_bin2bcd returned, or the
                  \* raw byte given to rtc_bcd2bin
  bcdBack,        \* codec exercise: the integer rtc_bcd2bin returned
  bcdOther,       \* codec exercise: the second seconds value of a pair
  bcdRetry,       \* codec exercise: what the two loop conditions decided
  initPc,         \* an initialization beside a running call: "idle", the
                  \* store that has reached memory ("i2c", "enabled"), "done"
  initArg         \* the handle passed to that initialization

driverVars == <<g_rtc_enabled, g_i2c, timeExt, pc, tp, ret, buffer, seconds,
                newtime, regs, ticks, lastOp, lastInit, busLog, tp0, tv,
                rebound, echo, calls>>
codecVars == <<bcdPc, bcdValue, bcdByte, bcdBack, bcdOther, bcdRetry>>
concVars == <<initPc, initArg>>
vars == <<driverVars, codecVars, concVars>>

\* buffer[k] with the index counted from 0 as in C
Buf(b, k) == b[k + 1]

\* busLog keeps the first LogCap transfers of a call: one more than a call
\* can make when every retry takes a tick of the chip
LogCap == MaxTicks + 2
Logged(q, e) == IF Len(q) < LogCap THEN Append(q, e) ELSE q

(***************************************************************************)
(* Pieces of the operations.                                               *)
(***************************************************************************)

\* if (!g_rtc_enabled) of up_rtc_getdatetime
GetNotReady(enabled) == ~enabled

\* a loop that repeats the transfer also when the two samples are equal
GetRetry_ge(b, s) ==
  BitAnd(Buf(b, 0), PCF85263_RTC_SECONDS_MASK)
    >= BitAnd(s, PCF85263_RTC_SECONDS_MASK)

\* the check of the flag left out
SetNotReady_never(enabled) == FALSE

\* if (!g_rtc_enabled) of up_rtc_settime
SetNotReady(enabled) == ~enabled

\* the epoch with the day of the month counted from 0
EpochTime_day0(t, ext) ==
  [t EXCEPT !.tm_sec = 0, !.tm_min = 0, !.tm_hour = 0,
            !.tm_wday = IF ext THEN 4 ELSE @,
            !.tm_mday = 0, !.tm_mon = 0, !.tm_year = 70]

\* the time of the epoch, written into *tp
EpochTime(t, ext) ==
  [t EXCEPT !.tm_sec = 0, !.tm_min = 0, !.tm_hour = 0,
            !.tm_wday = IF ext THEN 4 ELSE @,
            !.tm_mday = 1, !.tm_mon = 0, !.tm_year = 70]

\* messages whose second address write names the hundredths register
GetMsgs_hundredths ==
  << [flags |-> 0, buffer |-> <<PCF85263_RTC_SECONDS>>, length |-> 1],
     [flags |-> I2C_M_READ, buffer |-> <<>>, length |-> 7],
     [flags |-> 0, buffer |-> <<PCF85263_RTC_100TH_SECONDS>>, length |-> 1],
     [flags |-> I2C_M_READ, buffer |-> <<>>, length |-> 1] >>

\* msg[0..3] of up_rtc_getdatetime
GetMsgs ==
  << [flags |-> 0, buffer |-> <<PCF85263_RTC_SECONDS>>, length |-> 1],
     [flags |-> I2C_M_READ, buffer |-> <<>>, length |-> 7],
     [flags |-> 0, buffer |-> <<PCF85263_RTC_SECONDS>>, length |-> 1],
     [flags |-> I2C_M_READ, buffer |-> <<>>, length |-> 1] >>

\* msg[0..2] of up_rtc_settime
SetMsgs(b) ==
  << [flags |-> 0, buffer |-> b, length |-> 9],
     [flags |-> 0, buffer |-> <<PCF85263_RTC_SECONDS>>, length |-> 1],
     [flags |-> I2C_M_READ, buffer |-> <<>>, length |-> 1] >>

\* a loop that never repeats the transfer
GetRetry_never(b, s) == FALSE

\* while ((buffer[0] & SECONDS_MASK) > (seconds & SECONDS_MASK))
GetRetry(b, s) ==
  BitAnd(Buf(b, 0), PCF85263_RTC_SECONDS_MASK)
    > BitAnd(s, PCF85263_RTC_SECONDS_MASK)

\* a loop that never repeats the write
SetRetry_never(b, s) == FALSE

\* a loop that repeats the write when the read-back is the smaller or the
\* same count of units, whatever the tens
SetRetry_units(b, s) == BitAnd(Buf(b, 2), 15) >= BitAnd(s, 15)

\* while ((buffer[2] & SECONDS_MASK) > (seconds & SECONDS_MASK))
SetRetry(b, s) ==
  BitAnd(Buf(b, 2), PCF85263_RTC_SECONDS_MASK)
    > BitAnd(s, PCF85263_RTC_SECONDS_MASK)

\* a failed conversion reported as "not ready"
ConversionError_again == -EAGAIN

\* return -EINVAL; after gmtime_r or localtime_r returned NULL
ConversionError == -EINVAL

\* every failure reported as -EIO
FailReturn_eio(r) == -EIO

\* return ret; after a failed transfer
FailReturn(r) == r

\* a decoding that takes day-of-week from buffer[3] and day-of-month from
\* buffer[4], the order the comment above the read message gives
DecodeTime_swapped(b, t, ext) ==
  [t EXCEPT
     !.tm_sec  = rtc_bcd2bin(BitAnd(Buf(b, 0), PCF85263_RTC_SECONDS_MASK)),
     !.tm_min  = rtc_bcd2bin(BitAnd(Buf(b, 1), PCF85263_RTC_MINUTES_MASK)),
     !.tm_hour = rtc_bcd2bin(BitAnd(Buf(b, 2), PCF85263_RTC_HOURS24_MASK)),
     !.tm_mday = rtc_bcd2bin(BitAnd(Buf(b, 4), PCF85263_RTC_DAYS_MASK)),
     !.tm_wday = IF ext
                 THEN BitAnd(rtc_bcd2bin(Buf(b, 3)), PCF85263_RTC_WEEKDAYS_MASK)
                 ELSE @,
     !.tm_mon  = rtc_bcd2bin(BitAnd(Buf(b, 5), PCF85263_RTC_MONTHS_MASK)) - 1,
     !.tm_year = rtc_bcd2bin(Buf(b, 6)) + 68]

\* "Format the return time": the fields of *tp from buffer[0..6]
DecodeTime(b, t, ext) ==
  [t EXCEPT
     !.tm_sec  = rtc_bcd2bin(BitAnd(Buf(b, 0), PCF85263_RTC_SECONDS_MASK)),
     !.tm_min  = rtc_bcd2bin(BitAnd(Buf(b, 1), PCF85263_RTC_MINUTES_MASK)),
     !.tm_hour = rtc_bcd2bin(BitAnd(Buf(b, 2), PCF85263_RTC_HOURS24_MASK)),
     !.tm_mday = rtc_bcd2bin(BitAnd(Buf(b, 3), PCF85263_RTC_DAYS_MASK)),
     !.tm_wday = IF ext
                 THEN BitAnd(rtc_bcd2bin(Buf(b, 4)), PCF85263_RTC_WEEKDAYS_MASK)
                 ELSE @,
     !.tm_mon  = rtc_bcd2bin(BitAnd(Buf(b, 5), PCF85263_RTC_MONTHS_MASK)) - 1,
     !.tm_year = rtc_bcd2bin(Buf(b, 6)) + 68]

\* an image with day-of-week written before day-of-month
BuildImage_swapped(newtm, ext) ==
  << PCF85263_RTC_100TH_SECONDS,
     0,
     rtc_bin2bcd(newtm.tm_sec),
     rtc_bin2bcd(newtm.tm_min),
     rtc_bin2bcd(newtm.tm_hour),
     IF ext THEN rtc_bin2bcd(newtm.tm_wday) ELSE 0,
     rtc_bin2bcd(newtm.tm_mday),
     rtc_bin2bcd(newtm.tm_mon + 1),
     rtc_bin2bcd(newtm.tm_year - 68) >>

\* "Construct the message": buffer[0..8] of up_rtc_settime
BuildImage(newtm, ext) ==
  << PCF85263_RTC_100TH_SECONDS,
     0,
     rtc_bin2bcd(newtm.tm_sec),
     rtc_bin2bcd(newtm.tm_min),
     rtc_bin2bcd(newtm.tm_hour),
     rtc_bin2bcd(newtm.tm_mday),
     IF ext THEN rtc_bin2bcd(newtm.tm_wday) ELSE 0,
     rtc_bin2bcd(newtm.tm_mon + 1),
     rtc_bin2bcd(newtm.tm_year - 68) >>

(***************************************************************************)
(* Initial state: the statics are zero, no call has been made.             *)
(***************************************************************************)

DriverInit ==
  /\ g_rtc_enabled = FALSE
  /\ g_i2c = NULL
  /\ timeExt \in BOOLEAN
  /\ pc = "idle"
  /\ tp \in TmJunk
  /\ ret = OK
  /\ buffer = <<>>
  /\ seconds = 0
  /\ newtime = TimeT(0, 0)
  /\ regs \in ChipInits
  /\ ticks = 0
  /\ lastOp = "none"
  /\ lastInit = NULL
  /\ rebound = FALSE
  /\ busLog = <<>>
  /\ tp0 = tp
  /\ tv = [tv_sec |-> TimeT(0, 0), tv_nsec |-> 0, converted |-> TRUE]
  /\ echo = FALSE
  /\ calls = 0
  /\ initPc = "idle"
  /\ initArg = NULL

Init ==
  /\ DriverInit
  /\ bcdPc = "off"
  /\ bcdValue = 0
  /\ bcdByte = 0
  /\ bcdBack = 0
  /\ bcdOther = 0
  /\ bcdRetry = [get |-> FALSE, set |-> FALSE]

(***************************************************************************)
(* Operations.                                                             *)
(***************************************************************************)

\* a second initialization that is ignored
pcf85263_rtc_initialize_once(i2c) ==
  /\ pc = "idle"
  /\ g_i2c' = IF g_rtc_enabled THEN g_i2c ELSE i2c
  /\ g_rtc_enabled' = TRUE
  /\ ret' = OK
  /\ lastOp' = "init"
  /\ lastInit' = i2c
  /\ rebound' = (rebound \/ (lastInit # NULL /\ lastInit # i2c))
  /\ UNCHANGED <<timeExt, pc, tp, buffer, seconds, newtime, regs, ticks,
                 busLog, tp0, tv, echo, calls>>
  /\ UNCHANGED <<codecVars, concVars>>

\* an initialization that flips the flag
pcf85263_rtc_initialize_toggle(i2c) ==
  /\ pc = "idle"
  /\ g_i2c' = i2c
  /\ g_rtc_enabled' = ~g_rtc_enabled
  /\ ret' = OK
  /\ lastOp' = "init"
  /\ lastInit' = i2c
  /\ rebound' = (rebound \/ (lastInit # NULL /\ lastInit # i2c))
  /\ UNCHANGED <<timeExt, pc, tp, buffer, seconds, newtime, regs, ticks,
                 busLog, tp0, tv, echo, calls>>
  /\ UNCHANGED <<codecVars, concVars>>

pcf85263_rtc_initialize(i2c) ==
  /\ pc = "idle"
  /\ g_i2c' = i2c
  /\ g_rtc_enabled' = TRUE
  /\ ret' = OK
  /\ lastOp' = "init"
  /\ lastInit' = i2c
  /\ rebound' = (rebound \/ (lastInit # NULL /\ lastInit # i2c))
  /\ UNCHANGED <<timeExt, pc, tp, buffer, seconds, newtime, regs, ticks,
                 busLog, tp0, tv, echo, calls>>
  /\ UNCHANGED <<codecVars, concVars>>

\* up_rtc_getdatetime up to the transfer loop
up_rtc_getdatetime ==
  /\ pc = "idle"
  /\ calls < MaxCalls
  /\ calls' = calls + 1
  /\ lastOp' = "get"
  /\ tp0' = tp
  /\ busLog' = <<>>
  /\ IF GetNotReady(g_rtc_enabled)
     THEN /\ tp' = EpochTime(tp, timeExt)
          /\ ret' = -EAGAIN
          /\ UNCHANGED <<pc, buffer, seconds>>
     ELSE /\ pc' = "get"
          /\ buffer' = <<>>
          /\ seconds' = 0
          /\ ret' = OK
          /\ UNCHANGED tp
  /\ UNCHANGED <<g_rtc_enabled, g_i2c, timeExt, newtime, regs, ticks,
                 lastInit, rebound, tv, echo>>
  /\ UNCHANGED <<codecVars, concVars>>

\* one pass of the do-while loop of up_rtc_getdatetime and, when the loop
\* ends, the rest of the function
up_rtc_getdatetime_transfer(tickAt, failAt, err) ==
  /\ pc = "get"
  /\ \E r \in {I2C_TRANSFER(regs, GetMsgs, tickAt, failAt)} :
     LET ticked == tickAt # 0 /\ (failAt = 0 \/ tickAt <= failAt)
         xret   == IF r.ok THEN OK ELSE -err
         buf    == IF r.ok THEN SubSeq(r.rd, 1, 7) ELSE buffer
         sec    == IF r.ok THEN r.rd[8] ELSE seconds
     IN  /\ ticked => ticks < MaxTicks
         /\ regs' = r.regs
         /\ ticks' = IF ticked THEN ticks + 1 ELSE ticks
         /\ echo' = (echo /\ ~ticked)
         /\ busLog' = Logged(busLog, [i2c |-> g_i2c, msgs |-> GetMsgs,
                                      ret |-> xret, rd |-> r.rd,
                                      before |-> regs])
         /\ IF xret < 0
            THEN /\ ret' = FailReturn(xret)
                 /\ pc' = "idle"
                 /\ UNCHANGED <<tp, buffer, seconds>>
            ELSE /\ buffer' = buf
                 /\ seconds' = sec
                 /\ IF GetRetry(buf, sec)
                    THEN UNCHANGED <<pc, tp, ret>>
                    ELSE /\ tp' = DecodeTime(buf, tp, timeExt)
                         /\ ret' = OK
                         /\ pc' = "idle"
  /\ UNCHANGED <<g_rtc_enabled, g_i2c, timeExt, newtime, lastOp, lastInit,
                 rebound, tp0, tv, calls>>
  /\ UNCHANGED <<codecVars, concVars>>

\* up_rtc_settime up to the transfer loop; converted says whether the
\* calendar conversion returned a broken-down time (and not NULL)
up_rtc_settime(tv_sec, tv_nsec, converted) ==
  /\ pc = "idle"
  /\ calls < MaxCalls
  /\ calls' = calls + 1
  /\ lastOp' = "set"
  /\ tv' = [tv_sec |-> tv_sec, tv_nsec |-> tv_nsec, converted |-> converted]
  /\ busLog' = <<>>
  /\ IF SetNotReady(g_rtc_enabled)
     THEN /\ ret' = -EAGAIN
          /\ UNCHANGED <<pc, newtime, buffer, seconds>>
     ELSE /\ newtime' = RoundTime(tv_sec, tv_nsec)
          /\ IF ~converted
             THEN /\ ret' = ConversionError
                  /\ UNCHANGED <<pc, buffer, seconds>>
             ELSE /\ buffer' = BuildImage(gmtime_r(newtime'), timeExt)
                  /\ seconds' = 0
                  /\ pc' = "set"
                  /\ ret' = OK
  /\ UNCHANGED <<g_rtc_enabled, g_i2c, timeExt, tp, regs, ticks,
                 lastInit, rebound, tp0, echo>>
  /\ UNCHANGED <<codecVars, concVars>>

\* one pass of the do-while loop of up_rtc_settime
up_rtc_settime_transfer(tickAt, failAt, err) ==
  /\ pc = "set"
  /\ \E r \in {I2C_TRANSFER(regs, SetMsgs(buffer), tickAt, failAt)} :
     LET ticked == tickAt # 0 /\ (failAt = 0 \/ tickAt <= failAt)
         xret   == IF r.ok THEN OK ELSE -err
         sec    == IF r.ok THEN r.rd[1] ELSE seconds
     IN  /\ ticked => ticks < MaxTicks
         /\ regs' = r.regs
         /\ ticks' = IF ticked THEN ticks + 1 ELSE ticks
         /\ echo' = (r.ok /\ ~ticked)
         /\ busLog' = Logged(busLog, [i2c |-> g_i2c, msgs |-> SetMsgs(buffer),
                                      ret |-> xret, rd |-> r.rd])
         /\ IF xret < 0
            THEN /\ ret' = FailReturn(xret)
                 /\ pc' = "idle"
                 /\ UNCHANGED seconds
            ELSE /\ seconds' = sec
                 /\ IF SetRetry(buffer, sec)
                    THEN UNCHANGED <<pc, ret>>
                    ELSE /\ ret' = OK
                         /\ pc' = "idle"
  /\ UNCHANGED <<g_rtc_enabled, g_i2c, timeExt, tp, buffer, newtime, lastOp,
                 lastInit, rebound, tp0, tv, calls>>
  /\ UNCHANGED <<codecVars, concVars>>

Next ==
  \/ \E i2c \in InitHandles(lastInit) : pcf85263_rtc_initialize(i2c)
  \/ up_rtc_getdatetime
  \/ \E tickAt \in {0} \cup TickPoints(GetMsgs) :
       up_rtc_getdatetime_transfer(tickAt, 0, EIO)
  \/ \E failAt \in FailPoints(GetMsgs), err \in Errs :
       up_rtc_getdatetime_transfer(0, failAt, err)
  \/ \E tv_sec \in TvSecs, tv_nsec \in TvNsecs, converted \in BOOLEAN :
       up_rtc_settime(tv_sec, tv_nsec, converted)
  \/ \E tickAt \in {0} \cup TickPoints(SetMsgs(buffer)) :
       up_rtc_settime_transfer(tickAt, 0, EIO)
  \/ \E failAt \in FailPoints(SetMsgs(buffer)), err \in Errs :
       up_rtc_settime_transfer(0, failAt, err)

Spec == Init /\ [][Next]_vars

(***************************************************************************)
(* The first initialization beside a running call.  Nothing orders the     *)
(* store to g_pcf85263.i2c, a plain object, against the store to the       *)
(* volatile g_rtc_enabled for another thread (no lock, no barrier, no      *)
(* atomic), so either store may reach memory first; the calls read the     *)
(* flag at their entry and the handle at each transfer.                    *)
(***************************************************************************)

Stores == {"i2c", "enabled"}

\* the first of the two stores of pcf85263_rtc_initialize reaches memory
pcf85263_rtc_initialize_first(i2c, which) ==
  /\ initPc = "idle"
  /\ initPc' = which
  /\ initArg' = i2c
  /\ lastInit' = i2c
  /\ IF which = "i2c"
     THEN g_i2c' = i2c /\ UNCHANGED g_rtc_enabled
     ELSE g_rtc_enabled' = TRUE /\ UNCHANGED g_i2c
  /\ UNCHANGED <<timeExt, pc, tp, ret, buffer, seconds, newtime, regs, ticks,
                 lastOp, rebound, busLog, tp0, tv, echo, calls>>
  /\ UNCHANGED codecVars

\* the other store reaches memory
pcf85263_rtc_initialize_second ==
  /\ initPc \in Stores
  /\ initPc' = "done"
  /\ IF initPc = "i2c"
     THEN g_rtc_enabled' = TRUE /\ UNCHANGED g_i2c
     ELSE g_i2c' = initArg /\ UNCHANGED g_rtc_enabled
  /\ UNCHANGED <<timeExt, pc, tp, ret, buffer, seconds, newtime, regs, ticks,
                 lastOp, lastInit, rebound, busLog, tp0, tv, echo, calls,
                 initArg>>
  /\ UNCHANGED codecVars

ConcNext ==
  \/ \E i2c \in InitHandles(lastInit), which \in Stores :
       pcf85263_rtc_initialize_first(i2c, which)
  \/ pcf85263_rtc_initialize_second
  \/ up_rtc_getdatetime
  \/ \E tickAt \in {0} \cup TickPoints(GetMsgs) :
       up_rtc_getdatetime_transfer(tickAt, 0, EIO)
  \/ \E failAt \in FailPoints(GetMsgs), err \in Errs :
       up_rtc_getdatetime_transfer(0, failAt, err)
  \/ \E tv_sec \in TvSecs, tv_nsec \in TvNsecs, converted \in BOOLEAN :
       up_rtc_settime(tv_sec, tv_nsec, converted)
  \/ \E tickAt \in {0} \cup TickPoints(SetMsgs(buffer)) :
       up_rtc_settime_transfer(tickAt, 0, EIO)
  \/ \E failAt \in FailPoints(SetMsgs(buffer)), err \in Errs :
       up_rtc_settime_transfer(0, failAt, err)

ConcSpec == Init /\ [][ConcNext]_vars

\* Progress of a call: the caller keeps running its loop and the transport
\* keeps completing a transfer during which the chip does not tick.
LiveSpec ==
  /\ Spec
  /\ WF_vars(up_rtc_getdatetime_transfer(0, 0, EIO))
  /\ WF_vars(up_rtc_settime_transfer(0, 0, EIO))

(***************************************************************************)
(* The codec on its own: every value of two decimal digits is encoded and  *)
(* the byte decoded again, every byte is decoded, and the loop conditions  *)
(* are applied to the encodings of every pair of seconds values.           *)
(***************************************************************************)

\* "Converts a 2 digit binary": the largest value rtc_bin2bcd is given
BCD_MAX == 99

\* the largest seconds value ("Save seconds (0-59) converted to BCD")
SEC_MAX == 59

\* a value to encode and decode again, or any byte to decode, or a pair of
\* seconds values to encode and compare
CodecInit ==
  /\ DriverInit
  /\ timeExt = FALSE
  /\ bcdBack = 0
  /\ bcdRetry = [get |-> FALSE, set |-> FALSE]
  /\ \/ /\ bcdPc = "start"
        /\ bcdValue \in 0..BCD_MAX
        /\ bcdByte = 0
        /\ bcdOther = 0
     \/ /\ bcdPc = "raw"
        /\ bcdValue = 0
        /\ bcdByte \in 0..255
        /\ bcdOther = 0
     \/ /\ bcdPc = "pair"
        /\ bcdValue \in 0..SEC_MAX
        /\ bcdByte = 0
        /\ bcdOther \in 0..SEC_MAX

Encode ==
  /\ bcdPc = "start"
  /\ bcdByte' = rtc_bin2bcd(bcdValue)
  /\ bcdPc' = "encoded"
  /\ UNCHANGED <<bcdValue, bcdBack, bcdOther, bcdRetry>>
  /\ UNCHANGED <<driverVars, concVars>>

Decode ==
  /\ bcdPc \in {"encoded", "raw"}
  /\ bcdBack' = rtc_bcd2bin(bcdByte)
  /\ bcdPc' = IF bcdPc = "encoded" THEN "decoded" ELSE "rawDecoded"
  /\ UNCHANGED <<bcdValue, bcdByte, bcdOther, bcdRetry>>
  /\ UNCHANGED <<driverVars, concVars>>

\* the two loop conditions on the encodings of a pair of seconds values:
\* the first as the byte read or written first, the second as the sample
\* taken after it
Compare ==
  /\ bcdPc = "pair"
  /\ bcdRetry' =
       [get |-> GetRetry(<<rtc_bin2bcd(bcdValue)>>, rtc_bin2bcd(bcdOther)),
        set |-> SetRetry(<<PCF85263_RTC_100TH_SECONDS, 0,
                           rtc_bin2bcd(bcdValue)>>, rtc_bin2bcd(bcdOther))]
  /\ bcdPc' = "compared"
  /\ UNCHANGED <<bcdValue, bcdByte, bcdBack, bcdOther>>
  /\ UNCHANGED <<driverVars, concVars>>

CodecNext == Encode \/ Decode \/ Compare

CodecSpec == CodecInit /\ [][CodecNext]_vars

(***************************************************************************)
(* The formatting of the returned time, on its own: buffer[0..6] holds any *)
(* bytes a register can deliver (one of the seven ranges over all byte     *)
(* values, the others hold the initial chip image), and the one step is    *)
(* the part of up_rtc_getdatetime after its loop.                          *)
(***************************************************************************)

RawBuffers ==
  {[k \in 1..7 |-> IF k = pos THEN v ELSE r[k]] :
     pos \in 1..7, v \in 0..255, r \in ChipInits}

FormatInit ==
  /\ g_rtc_enabled = TRUE
  /\ g_i2c \in InitHandles(NULL)
  /\ timeExt \in BOOLEAN
  /\ pc = "format"
  /\ tp \in TmJunk
  /\ ret = OK
  /\ buffer \in RawBuffers
  /\ seconds = Buf(buffer, 0)
  /\ newtime = TimeT(0, 0)
  /\ regs \in ChipInits
  /\ ticks = 0
  /\ lastOp = "get"
  /\ lastInit = g_i2c
  /\ rebound = FALSE
  /\ busLog = <<>>
  /\ tp0 = tp
  /\ tv = [tv_sec |-> TimeT(0, 0), tv_nsec |-> 0, converted |-> TRUE]
  /\ echo = FALSE
  /\ calls = 1
  /\ initPc = "idle"
  /\ initArg = NULL
  /\ bcdPc = "off"
  /\ bcdValue = 0
  /\ bcdByte = 0
  /\ bcdBack = 0
  /\ bcdOther = 0
  /\ bcdRetry = [get |-> FALSE, set |-> FALSE]

Format ==
  /\ pc = "format"
  /\ tp' = DecodeTime(buffer, tp, timeExt)
  /\ ret' = OK
  /\ pc' = "formatted"
  /\ UNCHANGED <<g_rtc_enabled, g_i2c, timeExt, buffer, seconds, newtime,
                 regs, ticks, lastOp, lastInit, rebound, busLog, tp0, tv,
                 echo, calls>>
  /\ UNCHANGED <<codecVars, concVars>>

FormatNext == Format

FormatSpec == FormatInit /\ [][FormatNext]_vars

(***************************************************************************)
(* Properties.                                                             *)
(***************************************************************************)

Last(q) == q[Len(q)]
Returned(op) == lastOp = op /\ pc = "idle"

\* the seconds digits of a register byte, and two BCD digits as a number
SecBits(b) == b % 128
Digits(b) == (b \div 16) * 10 + (b % 16)

\* the two seconds samples of a completed read transfer
Sample1(e) == SecBits(e.rd[1])
Sample2(e) == SecBits(e.rd[8])

\* the seconds byte a write transfer sent and the one it read back
Written(e) == SecBits(e.msgs[1].buffer[3])
ReadBack(e) == SecBits(e.rd[1])

\* the timespec rounded to the nearest second, in the integers
Rounded(t) == IF t.tv_nsec >= NSEC_HALF THEN TimeSucc(t.tv_sec) ELSE t.tv_sec

\* C1: a read transfer that completes with the second seconds sample
\* smaller than the first is followed by another transfer of the same
\* call, and a successful up_rtc_getdatetime returns the seconds of a
\* transfer whose second sample is not smaller than its first.
C1_RetryOnRollover ==
  lastOp = "get" =>
    /\ \A i \in 1..Len(busLog) :
         (busLog[i].ret = OK /\ Sample2(busLog[i]) < Sample1(busLog[i]))
           => (i < Len(busLog) \/ pc = "get")
    /\ (pc = "idle" /\ ret = OK) =>
         /\ busLog # <<>>
         /\ Last(busLog).ret = OK
         /\ Sample2(Last(busLog)) >= Sample1(Last(busLog))
         /\ tp.tm_sec = Digits(Sample1(Last(busLog)))

\* first sample 59, second sample 00, a second transfer, then success
C1_Witness ==
  /\ Returned("get") /\ ret = OK /\ Len(busLog) = 2
  /\ Sample1(busLog[1]) = 89 /\ Sample2(busLog[1]) = 0

\* C2: a transfer that fails is the last one of its call, the call returns
\* the value the transport reported, and up_rtc_getdatetime leaves *tp as
\* it found it.
C2_FailureAborts ==
  lastOp \in {"get", "set"} =>
    \A i \in 1..Len(busLog) :
      busLog[i].ret < 0 =>
        /\ i = Len(busLog)
        /\ pc = "idle"
        /\ ret = busLog[i].ret
        /\ lastOp = "get" => tp = tp0

\* the retry of a read fails with -ETIMEDOUT
C2_Witness ==
  /\ Returned("get") /\ Len(busLog) = 2
  /\ busLog[1].ret = OK /\ busLog[2].ret = -ETIMEDOUT

\* C3 (as claimed): up_rtc_settime(T) then up_rtc_getdatetime on registers
\* that hold what was written returns the seconds, minutes, hours, day,
\* month and year of T rounded to the nearest second.
C3_RoundTrip ==
  (Returned("get") /\ ret = OK /\ echo) =>
    LET r == gmtime_r(Rounded(tv))
    IN  /\ tp.tm_sec = r.tm_sec
        /\ tp.tm_min = r.tm_min
        /\ tp.tm_hour = r.tm_hour
        /\ tp.tm_mday = r.tm_mday
        /\ tp.tm_mon = r.tm_mon
        /\ tp.tm_year = r.tm_year

\* C4: while g_rtc_enabled is false no transfer has been issued, the chip
\* is as it started, and every up_rtc_settime returned -EAGAIN.
C4_NoBusWhileDisabled ==
  ~g_rtc_enabled =>
    /\ busLog = <<>>
    /\ pc = "idle"
    /\ regs \in ChipInits /\ ticks = 0
    /\ lastOp = "set" => ret = -EAGAIN

\* two calls before the first initialize, the later an up_rtc_settime
C4_Witness == ~g_rtc_enabled /\ Returned("set") /\ calls = 2

\* C5: up_rtc_getdatetime on a session that is not enabled writes the
\* epoch (00:00:00, day 1, month 0, year 70, Thursday where tm_wday
\* exists) into *tp and returns -EAGAIN.
C5_EpochWhenDisabled ==
  (~g_rtc_enabled /\ lastOp = "get") =>
    /\ ret = -EAGAIN
    /\ tp.tm_sec = 0 /\ tp.tm_min = 0 /\ tp.tm_hour = 0
    /\ tp.tm_mday = 1 /\ tp.tm_mon = 0 /\ tp.tm_year = 70
    /\ timeExt => tp.tm_wday = 4

\* the output held other values before the call
C5_Witness ==
  /\ ~g_rtc_enabled /\ Returned("get") /\ timeExt
  /\ tp0 \in TmJunk /\ tp0.tm_mday # 1 /\ tp0.tm_wday # 4

\* C6: decoding the encoding of a value in 0..99 gives the value back.
C6_BcdRoundTrip == bcdPc = "decoded" => bcdBack = bcdValue

C6_Witness == bcdPc = "decoded" /\ bcdValue = BCD_MAX /\ bcdByte = 153

\* C7: g_rtc_enabled is false at first, becomes true only in
\* pcf85263_rtc_initialize, and never becomes false again.
C7_OneWay ==
  /\ ~g_rtc_enabled
  /\ [][/\ g_rtc_enabled => g_rtc_enabled'
        /\ (~g_rtc_enabled /\ g_rtc_enabled') => lastOp' = "init"]_vars

\* a call fails on the bus, a second initialize follows, the flag stays
C7_Witness ==
  /\ g_rtc_enabled /\ lastOp = "init" /\ rebound
  /\ busLog # <<>> /\ Last(busLog).ret < 0

\* C8: pcf85263_rtc_initialize returns OK and issues no transfer, and
\* every transfer is sent on the handle passed to the latest initialize.
C8_LatestHandle ==
  [][/\ lastOp' = "init" =>
          (ret' = OK /\ busLog' = busLog /\ regs' = regs /\ pc' = "idle")
     /\ (busLog' # busLog /\ busLog' # <<>>) =>
          Last(busLog').i2c = lastInit']_vars

\* a transfer after an initialize that replaced the handle by another one
C8_Witness ==
  /\ rebound /\ lastOp \in {"get", "set"} /\ busLog # <<>>
  /\ Last(busLog).i2c = "i2c1"

\* C9: every transfer of up_rtc_settime writes the same nine bytes and
\* reads the seconds back; one that completes with the written seconds
\* greater than the seconds read back is followed by another, and the call
\* returns OK only after one where they are not greater.
C9_WriteVerify ==
  lastOp = "set" =>
    /\ \A i \in 1..Len(busLog) :
         /\ busLog[i].msgs[1].buffer = buffer
         /\ Len(buffer) = 9
         /\ busLog[i].ret = OK => Len(busLog[i].rd) = 1
         /\ (busLog[i].ret = OK /\ Written(busLog[i]) > ReadBack(busLog[i]))
              => (i < Len(busLog) \/ pc = "set")
    /\ (pc = "idle" /\ ret = OK) =>
         /\ busLog # <<>>
         /\ Last(busLog).ret = OK
         /\ Written(Last(busLog)) <= ReadBack(Last(busLog))

\* seconds 59 written, 00 read back, the write repeated, then success
C9_Witness ==
  /\ Returned("set") /\ ret = OK /\ Len(busLog) = 2
  /\ Written(busLog[1]) = 89 /\ ReadBack(busLog[1]) = 0

\* C10 (as claimed): the second count converted and written is tv_sec + 1
\* when tv_nsec >= 500000000 and tv_sec otherwise, for every tv_sec up to
\* the largest one.
C10_RoundsToNearest == pc = "set" => newtime = Rounded(tv)


\* C11: when the calendar conversion fails in an enabled session,
\* up_rtc_settime returns -EINVAL without a transfer: the log of the call
\* is empty and the call is over.
C11_ConversionFailure ==
  (lastOp = "set" /\ g_rtc_enabled /\ ~tv.converted) =>
    /\ pc = "idle"
    /\ ret = -EINVAL
    /\ busLog = <<>>

\* the conversion fails after an earlier call has set the chip
C11_Witness ==
  /\ Returned("set") /\ g_rtc_enabled /\ ~tv.converted
  /\ calls = 2 /\ regs \notin ChipInits


\* the calendar fields the chip's clock shows at one instant (registers r)
ClockOf(r) ==
  [tm_sec  |-> Digits(r[1] % 128),
   tm_min  |-> Digits(r[2] % 128),
   tm_hour |-> Digits(r[3] % 64),
   tm_mday |-> Digits(r[4] % 64),
   tm_wday |-> r[5] % 8,
   tm_mon  |-> Digits(r[6] % 32) - 1,
   tm_year |-> Digits(r[7]) + 68]

\* the fields of t are those the clock r shows
SameInstant(t, r) ==
  /\ \A f \in {"tm_sec", "tm_min", "tm_hour", "tm_mday", "tm_mon", "tm_year"} :
       t[f] = ClockOf(r)[f]
  /\ timeExt => t.tm_wday = ClockOf(r).tm_wday

\* the 7 bytes of the bulk read of transfer e are the registers r
Untorn(e, r) == \A k \in 1..7 : e.rd[k] = r[k]

\* C12: with at most one tick per transfer, every successful
\* up_rtc_getdatetime returns the fields of one instant of the chip's
\* clock: the clock before or the clock after the tick of its last transfer.
C12_NoTornRead ==
  (Returned("get") /\ ret = OK /\ busLog # <<>>) =>
    \E r \in {Last(busLog).before, regs} :
      Untorn(Last(busLog), r) /\ SameInstant(tp, r)

\* a first transfer read seconds before and minutes after a rollover, the
\* call repeated it and returned
C12_Witness ==
  /\ Returned("get") /\ ret = OK /\ Len(busLog) = 2
  /\ busLog[1].ret = OK
  /\ ~Untorn(busLog[1], busLog[1].before)
  /\ ~Untorn(busLog[1], busLog[2].before)
  /\ busLog[1].rd[2] # busLog[1].before[2]


\* the packed-decimal byte of v: tens in the high nibble, units in the low
Enc(v) == 16 * (v \div 10) + (v % 10)

\* the seven calendar values of the image, in the order they are written
ImageFields(t) ==
  LET tm == gmtime_r(t)
  IN  << Enc(tm.tm_sec), Enc(tm.tm_min), Enc(tm.tm_hour), Enc(tm.tm_mday),
         IF timeExt THEN Enc(tm.tm_wday) ELSE 0,
         Enc(tm.tm_mon + 1), Enc(tm.tm_year - 68) >>

\* C13 as stated: byte 0 of the image is 0 and the seven calendar values
\* follow it directly, seconds at byte 1.
C13_ImageAsStated ==
  pc = "set" =>
    /\ Len(buffer) = 9
    /\ Buf(buffer, 0) = 0
    /\ \A k \in 1..7 : Buf(buffer, k) = ImageFields(newtime)[k]

\* C13, amended: byte 0 of the 9-byte image is the register address of the
\* hundredths register (0), byte 1 is the value 0 for that register, and
\* bytes 2..8 are the packed-decimal seconds, minutes, hours, day-of-month,
\* day-of-week (0 if unavailable), month+1 and year-since-reference; it is
\* the first message of every transfer of the call, and a complete transfer
\* without a tick leaves registers 0..7 equal to bytes 1..8.
C13_ImageLayout ==
  /\ pc = "set" =>
       /\ Len(buffer) = 9
       /\ Buf(buffer, 0) = PCF85263_RTC_100TH_SECONDS
       /\ Buf(buffer, 1) = 0
       /\ \A k \in 1..7 : Buf(buffer, k + 1) = ImageFields(newtime)[k]
  /\ lastOp = "set" =>
       \A i \in 1..Len(busLog) :
         /\ busLog[i].msgs[1].flags = 0
         /\ busLog[i].msgs[1].length = 9
         /\ busLog[i].msgs[1].buffer = buffer
  /\ (Returned("set") /\ ret = OK /\ echo) =>
       \A k \in 0..7 : regs[k] = Buf(buffer, k + 1)

\* a call has written an image with non-zero seconds and day-of-week, and
\* all eight registers hold it
C13_Witness ==
  /\ Returned("set") /\ ret = OK /\ echo /\ timeExt
  /\ Buf(buffer, 2) # 0 /\ Buf(buffer, 6) # 0
  /\ regs[0] = 0 /\ regs[1] = Buf(buffer, 2)


\* a successful read of the time on a configuration that returns the
\* day-of-week
GotTime == Returned("get") /\ ret = OK /\ busLog # <<>> /\ timeExt

C15_MaskThenDecode ==
  pc = "formatted" =>
    /\ tp.tm_sec  = Digits(Buf(buffer, 0) % 128)
    /\ tp.tm_min  = Digits(Buf(buffer, 1) % 128)
    /\ tp.tm_hour = Digits(Buf(buffer, 2) % 64)
    /\ tp.tm_mday = Digits(Buf(buffer, 3) % 64)
    /\ timeExt => tp.tm_wday = Digits(Buf(buffer, 4) % 8)
    /\ tp.tm_mon  = Digits(Buf(buffer, 5) % 32) - 1
    /\ tp.tm_year = Digits(Buf(buffer, 6)) + 68


\* transfer e is the four-message transaction: write the address of the
\* seconds register, read 7 bytes, write that address again, read 1 byte
FourMessages(e) ==
  /\ Len(e.msgs) = 4
  /\ e.msgs[1].flags = 0 /\ e.msgs[1].length = 1
  /\ e.msgs[1].buffer = <<PCF85263_RTC_SECONDS>>
  /\ e.msgs[2].flags = I2C_M_READ /\ e.msgs[2].length = 7
  /\ e.msgs[3].flags = 0 /\ e.msgs[3].length = 1
  /\ e.msgs[3].buffer = <<PCF85263_RTC_SECONDS>>
  /\ e.msgs[4].flags = I2C_M_READ /\ e.msgs[4].length = 1
  /\ e.ret = OK => Len(e.rd) = 8

\* the attempts of the current call that read a smaller second sample
Inconsistent == {i \in 1..Len(busLog) : Sample1(busLog[i]) > Sample2(busLog[i])}

\* C16: every attempt of up_rtc_getdatetime in an enabled session is one
\* transfer of the four messages, the single byte of the last message
\* lands in seconds and not in buffer, and a call that returns OK after k
\* inconsistent attempts has made exactly k + 1 transfers.
C16_FourMessagesPerAttempt ==
  lastOp = "get" =>
    /\ \A i \in 1..Len(busLog) : FourMessages(busLog[i])
    /\ (pc = "get" /\ busLog # <<>>) =>
         /\ Inconsistent = 1..Len(busLog)
         /\ buffer = SubSeq(Last(busLog).rd, 1, 7)
         /\ seconds = Last(busLog).rd[8]
    /\ (pc = "idle" /\ ret = OK /\ busLog # <<>>) =>
         /\ Inconsistent = 1..(Len(busLog) - 1)
         /\ Len(busLog) = Cardinality(Inconsistent) + 1
         /\ buffer = SubSeq(Last(busLog).rd, 1, 7)
         /\ seconds = Last(busLog).rd[8]

\* one inconsistent attempt, then a consistent one: two transfers of four
\* messages each
C16_Witness ==
  /\ Returned("get") /\ ret = OK
  /\ Cardinality(Inconsistent) = 1 /\ Len(busLog) = 2
  /\ \A i \in 1..2 : FourMessages(busLog[i]) /\ Len(busLog[i].rd) = 8


\* C17: when transfers complete and, again and again, an attempt sees no
\* tick of the chip, every up_rtc_getdatetime and every up_rtc_settime in
\* an enabled session returns.
C17_Terminates ==
  /\ (pc = "get") ~> (pc = "idle")
  /\ (pc = "set") ~> (pc = "idle")

\* a call still in its loop after as many attempts as the chip has ticked:
\* every tick within an attempt costs one more transfer
C17_Witness ==
  /\ pc = "set" /\ ticks = MaxTicks /\ Len(busLog) = MaxTicks
  /\ \A i \in 1..Len(busLog) : Written(busLog[i]) > ReadBack(busLog[i])


\* C18: for every v in 0..99 rtc_bin2bcd(v) is the byte with floor(v/10)
\* in the high nibble and v mod 10 in the low nibble (and its loop ends);
\* for every byte b rtc_bcd2bin(b) is 10 times the high nibble plus the low
\* nibble, no bit masked off.
C18_CodecValues ==
  /\ bcdPc = "encoded" =>
       /\ bcdByte = 16 * (bcdValue \div 10) + (bcdValue % 10)
       /\ bcdByte \div 16 = bcdValue \div 10
       /\ bcdByte % 16 = bcdValue % 10
  /\ bcdPc = "rawDecoded" =>
       bcdBack = 10 * (bcdByte \div 16) + (bcdByte % 16)

\* the byte 0xD9, a seconds register with its flag bit set and a units
\* digit of 9, decodes to 13 * 10 + 9
C18_Witness == bcdPc = "rawDecoded" /\ bcdByte = 217 /\ bcdBack = 139

\* C19: for seconds values a, b in 0..59 the loop conditions of
\* up_rtc_getdatetime and up_rtc_settime, which compare the masked
\* encodings, decide as a comparison of a and b would: repeat exactly
\* when a > b.
C19_CompareEncoded ==
  bcdPc = "compared" =>
    /\ bcdRetry.get <=> (bcdValue > bcdOther)
    /\ bcdRetry.set <=> (bcdValue > bcdOther)
    /\ (Enc(bcdValue) > Enc(bcdOther)) <=> (bcdValue > bcdOther)

\* 10 against 9: the encodings 0x10 and 0x09 differ in both nibbles
C19_Witness ==
  /\ bcdPc = "compared" /\ bcdValue = 10 /\ bcdOther = 9
  /\ bcdRetry.get /\ bcdRetry.set


=============================================================================
